---- MODULE Spec2Model ----
(***************************************************************************)
(* A model of vscod: the parser of the extension and editor                *)
(* specifications, the metadata resolution (versions, real file names)     *)
(* and the concurrent download batches of extensions_downloader.py,        *)
(* vscode_downloader.py and utils.py.                                      *)
(*                                                                         *)
(* Strings whose structure the code inspects (keys, extension ids, file    *)
(* names, platforms) are sequences of atoms; the atoms "." and "/" are the *)
(* characters str.split('.') and pathlib look for, every other atom is an  *)
(* opaque run of characters. A pathlib.Path and a URL are sequences of     *)
(* such strings, one per segment.                                          *)
(***************************************************************************)
EXTENDS Naturals, Sequences, FiniteSets, Bags, TLC

VARIABLES
    command,          \* which entry point runs: "parse", "patch", "extensions",
                      \* "editor"
    extensions_json,  \* json_data of parse_extensions_json / download_extensions_json
    vscode_json,      \* json_data of download_vscode_json
    real_name,        \* keyword argument of download_extensions_json
    versionize,       \* keyword argument of download_extensions_json
    pc,               \* where the batch coroutine is: "call", the phase whose
                      \* gather it awaits, "returned" or "raised"
    exc,              \* the exception that left the batch coroutine
    extension_paths,  \* the ExtensionPath objects, patched in place
    vscode_specs,     \* the VSCodeSpec objects
    version_tasks,    \* the get_extension_version coroutines given to gather
    name_tasks,       \* the get_original_filename coroutines given to gather
    download_tasks,   \* the download coroutines given to gather
    io,               \* the response the event loop is handing to a task
    dirs,             \* directories created under save_path
    files,            \* files under save_path: path -> content
    requests,         \* bag of the URLs of the GET requests issued
    network,          \* what the servers answered so far, by URL, when their
                      \* answers are held constant from one call to the next
    pending           \* the batches the command runs after the current one

vars == <<command, extensions_json, vscode_json, real_name, versionize, pc, exc,
          extension_paths, vscode_specs, version_tasks, name_tasks,
          download_tasks, io, dirs, files, requests, network, pending>>

-----------------------------------------------------------------------------
(* Bounds of the model.                                                    *)

MaxTargets == 2     \* entries of a specification given to a batch
MaxDepth == 2       \* nesting depth of an extension specification
MaxEntries == 3     \* entries (at all levels) of a tree given to the parser alone
MaxPageLen == 2     \* pieces of a marketplace page
MaxConfigTargets == 1   \* entries of the extensions section of a config file

-----------------------------------------------------------------------------
(* Strings, split('.') and pathlib.                                        *)

DOT == "."
SEP == "/"

Range(s) == {s[i] : i \in DOMAIN s}

Last(s) == s[Len(s)]

Front(s) == SubSeq(s, 1, Len(s) - 1)


\* str.split(c): the pieces of s between the occurrences of the atom c.
RECURSIVE Split(_, _)
Split(s, c) ==
    IF \A i \in DOMAIN s : s[i] # c
    THEN <<s>>
    ELSE LET i == CHOOSE j \in DOMAIN s :
                      s[j] = c /\ \A k \in 1..(j - 1) : s[k] # c
         IN <<SubSeq(s, 1, i - 1)>> \o Split(SubSeq(s, i + 1, Len(s)), c)

\* The anchor of an absolute path: the first of its parts.
ROOT == <<SEP>>

\* pathlib.Path(s).parts: the pieces between separators, empty pieces and "."
\* pieces dropped, after the anchor when s starts with a separator.
PathParts(s) ==
    (IF s # <<>> /\ s[1] = SEP THEN <<ROOT>> ELSE <<>>)
    \o SelectSeq(Split(s, SEP), LAMBDA p : p # <<>> /\ p # <<DOT>>)

IsAbsolute(p) == p # <<>> /\ p[1] = ROOT

\* Path(a, b) and a / b: an absolute b replaces a.
JoinPath(a, b) == IF IsAbsolute(b) THEN b ELSE a \o b

\* Path.name: the final segment, '' for the empty path.
PathName(p) == IF p = <<>> THEN <<>> ELSE Last(p)

\* Path.suffix of a final segment: from its last '.', unless that is the
\* first or the last character.
Suffix(name) ==
    LET dots == {i \in DOMAIN name : name[i] = DOT}
    IN IF dots = {} THEN <<>>
       ELSE LET i == CHOOSE j \in dots : \A k \in dots : k <= j
            IN IF 1 < i /\ i < Len(name) THEN SubSeq(name, i, Len(name)) ELSE <<>>

\* Path.with_name raises ValueError for a path without a name and for a name
\* that is empty, "." or holds a separator.
ValidName(name) == name # <<>> /\ name # <<DOT>> /\ SEP \notin Range(name)

\* The name is put under the path instead of in the place of its last segment.
with_name_under(p, name) == p \o <<name>>

with_name(p, name) == Front(p) \o <<name>>

\* Path.with_suffix('.vsix'): the old suffix of the final segment is replaced.
VSIX == <<DOT, "vsix">>

\* The suffix is put after the whole name.
with_suffix_appended(p, suffix) == Front(p) \o <<Last(p) \o suffix>>

with_suffix(p, suffix) ==
    LET name == Last(p)
        stem == SubSeq(name, 1, Len(name) - Len(Suffix(name)))
    IN Front(p) \o <<stem \o suffix>>

-----------------------------------------------------------------------------
(* The extension specification: a dict is the sequence of its items in     *)
(* insertion order, a value is a str, a dict or something else.            *)

Keys == {<<"a">>, <<"b">>, <<"a", SEP>>}

\* The keys given to the parser alone: a plain one, one that ends with a
\* separator and an absolute one.
ParseKeys == {<<"a">>, <<"a", SEP>>, <<SEP, "b">>}

\* Two ids of the form publisher.name and one without a '.'.
ExtensionIds == {<<"p", DOT, "x">>, <<"q", DOT, "y">>, <<"n">>}

StrValue(s) == [t |-> "str", s |-> s, d |-> <<>>]
DictValue(d) == [t |-> "dict", s |-> <<>>, d |-> d]
IntValue == [t |-> "int", s |-> <<>>, d |-> <<>>]

\* The values that are not dicts: the ids, the empty str and an int.
LeafValuesOf(ids) == {StrValue(s) : s \in ids \cup {<<>>}} \cup {IntValue}

LeafValues == LeafValuesOf(ExtensionIds)

\* The values given to the parser alone.
ParseLeafValues == LeafValuesOf({<<"p", DOT, "x">>, <<"n">>})

Item(k, v) == [key |-> k, value |-> v]

\* The dicts with keys of `keys` and values of `leaves`, nested at most
\* `depth` deep, that hold exactly n items, counted at all levels.
RECURSIVE DictsOfSize(_, _, _, _)
DictsOfSize(keys, leaves, depth, n) ==
    IF n = 0 THEN {<<>>}
    ELSE IF depth = 0 THEN {}
    ELSE UNION {
           LET values == IF m = 0
                         THEN leaves \cup
                              (IF depth > 1 THEN {DictValue(<<>>)} ELSE {})
                         ELSE {DictValue(d) :
                                 d \in DictsOfSize(keys, leaves, depth - 1, m)}
               rests == DictsOfSize(keys, leaves, depth, n - 1 - m)
               all == { <<Item(k, v)>> \o r : k \in keys, v \in values, r \in rests }
           IN { d \in all : \A i, j \in DOMAIN d : d[i].key = d[j].key => i = j }
           : m \in 0..(n - 1) }

Trees(keys, leaves, depth, size) ==
    UNION {DictsOfSize(keys, leaves, depth, n) : n \in 0..size}

-----------------------------------------------------------------------------
(* extensions_downloader.py: the parser.                                   *)

ExtensionPath(path, extension_id) ==
    [path |-> path, extension_id |-> extension_id, version |-> "latest"]

Parsed(paths) == [exc |-> "none", paths |-> paths]
Raised(e) == [exc |-> e, paths |-> <<>>]

\* The empty value is not refused.
parse_str_unchecked(key, value) ==
    Parsed(<<ExtensionPath(JoinPath(PathParts(key), PathParts(value)), value)>>)

\* The str branch of _recursive_parse_to_dict: an empty value raises, any
\* other gives one ExtensionPath at Path(key) / value.
parse_str(key, value) ==
    IF value = <<>>
    THEN Raised("ValueError")
    ELSE Parsed(<<ExtensionPath(JoinPath(PathParts(key), PathParts(value)), value)>>)

\* Only the first ExtensionPath of the nested dict is kept.
prepend_key_first(key, paths) ==
    IF paths = <<>> THEN <<>>
    ELSE <<[paths[1] EXCEPT !.path = JoinPath(PathParts(key), paths[1].path)]>>

\* The dict branch of _recursive_parse_to_dict: every ExtensionPath of the
\* nested dict, its path now Path(key, ext_path.path).
prepend_key(key, paths) ==
    [i \in DOMAIN paths |->
       [paths[i] EXCEPT !.path = JoinPath(PathParts(key), paths[i].path)]]

\* A value of another type is passed over.
parse_other_skipped(key) == Parsed(<<>>)

\* The else branch of _recursive_parse_to_dict.
parse_other(key) == Raised("TypeError")

\* The targets of an item are put in front of the list.
append_front(item_paths, later_paths) == later_paths \o item_paths

\* path_list.append: the targets of an item come before those of the items
\* after it.
append(item_paths, later_paths) == item_paths \o later_paths

\* _recursive_parse_to_dict: the items in order; the first bad value raises.
RECURSIVE recursive_parse_to_dict(_)
recursive_parse_to_dict(root_dict) ==
    IF root_dict = <<>> THEN Parsed(<<>>)
    ELSE
      LET key == Head(root_dict).key
          value == Head(root_dict).value
          here ==
            IF value.t = "str"
            THEN parse_str(key, value.s)
            ELSE IF value.t = "dict"
            THEN LET sub == recursive_parse_to_dict(value.d)
                 IN IF sub.exc # "none" THEN sub
                    ELSE Parsed(prepend_key(key, sub.paths))
            ELSE parse_other(key)
      IN IF here.exc # "none" THEN here
         ELSE LET rest == recursive_parse_to_dict(Tail(root_dict))
              IN IF rest.exc # "none" THEN rest
                 ELSE Parsed(append(here.paths, rest.paths))

parse_extensions_json(json_data) == recursive_parse_to_dict(json_data)

-----------------------------------------------------------------------------
(* URLs. The download link of an extension, its marketplace page and the   *)
(* download link of an editor binary, one string per path segment.         *)

MARKETPLACE == <<"marketplace.visualstudio.com">>

MARKETPLACE_DOWNLOAD_LINK(publisher_name, extension_name, version) ==
    <<MARKETPLACE, <<"publishers">>, publisher_name, <<"vsextensions">>,
      extension_name, <<version>>, <<"vspackage">>>>

MARKETPLACE_PAGE_LINK(extension_id) ==
    <<MARKETPLACE, <<"items?itemName=">> \o extension_id>>

build_extension_download_url(extension_name, publisher_name, version) ==
    MARKETPLACE_DOWNLOAD_LINK(publisher_name, extension_name, version)

\* The id is cut at its first '.' only, and an id without one gets an empty
\* name: always two pieces.
split_id_partition(extension_id) ==
    IF DOT \in Range(extension_id)
    THEN LET i == CHOOSE j \in DOMAIN extension_id :
                    extension_id[j] = DOT /\ \A k \in 1..(j - 1) : extension_id[k] # DOT
         IN <<SubSeq(extension_id, 1, i - 1),
              SubSeq(extension_id, i + 1, Len(extension_id))>>
    ELSE <<extension_id, <<>>>>

\* extension_id.split('.')
split_id(extension_id) == Split(extension_id, DOT)

\* publisher_name, extension_name = extension_id.split('.') raises ValueError
\* unless the split gives exactly two pieces.
CanUnpack(extension_id) == Len(split_id(extension_id)) = 2

build_extension_download_url_from_ext_path(ext_path) ==
    LET pieces == split_id(ext_path.extension_id)
    IN build_extension_download_url(pieces[2], pieces[1], ext_path.version)

DOWNLOAD_CODE_LINK(version, platform, build) ==
    <<<<"update.code.visualstudio.com">>, <<version>>, platform, <<build>>>>

build_vscode_download_url(platform, build, version) ==
    DOWNLOAD_CODE_LINK(version, platform, build)

build_vscode_download_url_from_spec(spec) ==
    build_vscode_download_url(spec.platform, spec.build, spec.version)

-----------------------------------------------------------------------------
(* What the servers may answer.                                            *)

Versions == {"1.0", "2.0"}

\* A marketplace page: its pieces in order, each a "Version":"..." token
\* (its value) or other text.
Pages == UNION {[1..n -> Versions \cup {"html"}] : n \in 0..MaxPageLen}

VersionResponses ==
    {[ok |-> FALSE, text |-> <<>>]} \cup {[ok |-> TRUE, text |-> t] : t \in Pages}

\* re.search(r'"Version":"(.*?)"', text): the first token of the page.
HasVersion(text) == \E i \in DOMAIN text : text[i] \in Versions

version_search(text) ==
    text[CHOOSE i \in DOMAIN text :
           text[i] \in Versions /\ \A j \in 1..(i - 1) : text[j] \notin Versions]

Filenames == {<<"f", DOT, "vsix">>, <<"g", DOT, "zip">>}

\* A Content-Disposition header is given by what
\* re.findall('filename=(.+);', header) finds in it.
NoHeader == [present |-> FALSE, filenames |-> <<>>]
Headers ==
    {NoHeader, [present |-> TRUE, filenames |-> <<>>]}
    \cup {[present |-> TRUE, filenames |-> <<f>>] :
            f \in Filenames \cup {<<"d", SEP, "f">>}}

\* After a redirect response.url is the URL of the file itself.
RedirectUrls == {<<<<"cdn">>, f>> : f \in Filenames}

NameResponses(url) ==
    {[ok |-> FALSE, content_disposition |-> NoHeader, url |-> url]}
    \cup {[ok |-> TRUE, content_disposition |-> h, url |-> u] :
            h \in Headers, u \in {url} \cup RedirectUrls}

\* The body the server holds for a URL.
Body(url) == url

-----------------------------------------------------------------------------
(* The coroutines given to asyncio.gather, and the file system.            *)

VersionTask(url) == [st |-> "scheduled", url |-> url, result |-> "none"]

NameTask(url) == [st |-> "scheduled", url |-> url, result |-> <<>>, exc |-> "none"]

DownloadTask(args, save_path) ==
    [st |-> "scheduled", args |-> args, save_path |-> save_path,
     url |-> <<>>, data |-> <<>>, exc |-> "none"]

Ended(task) == task.st \in {"done", "failed", "cancelled"}

\* The coroutines awaited one after the other, in list order.
StartableInTurn(tasks, i) ==
    /\ i \in DOMAIN tasks
    /\ tasks[i].st = "scheduled"
    /\ \A j \in 1..(i - 1) : Ended(tasks[j])

\* asyncio.gather wraps every coroutine it is given in a task at once: a
\* task waits for the event loop only, never for another task of the list.
Startable(tasks, i) == i \in DOMAIN tasks /\ tasks[i].st = "scheduled"

\* A gather that wakes its caller at the first result.
AnyDone(tasks) == tasks = <<>> \/ \E i \in DOMAIN tasks : tasks[i].st = "done"

AllDone(tasks) == \A i \in DOMAIN tasks : tasks[i].st = "done"

SomeFailed(tasks) == \E i \in DOMAIN tasks : tasks[i].st = "failed"

\* Path.mkdir(parents=True, exist_ok=True)
Prefixes(p) == {SubSeq(p, 1, k) : k \in 0..Len(p)}

mkdir(ds, p) == ds \cup Prefixes(p)

\* The file is closed with nothing written.
CompleteEmpty(data) == [written |-> "full", body |-> <<>>]

Truncated(url) == [written |-> "partial", body |-> Body(url)]
Complete(data) == [written |-> "full", body |-> data]

Stored(fs, path, content) ==
    [p \in DOMAIN fs \cup {path} |-> IF p = path THEN content ELSE fs[p]]

Sent(url) == requests (+) SetToBag({url})

-----------------------------------------------------------------------------
(* Calling the parser alone.                                               *)

NoIO == [phase |-> "none", i |-> 0, resp |-> <<>>]

Idle ==
    /\ pc = "call"
    /\ exc = "none"
    /\ extension_paths = <<>>
    /\ vscode_specs = <<>>
    /\ version_tasks = <<>>
    /\ name_tasks = <<>>
    /\ download_tasks = <<>>
    /\ io = NoIO
    /\ dirs = {}
    /\ files = <<>>
    /\ requests = EmptyBag
    /\ network = <<>>

InitParse ==
    /\ command = "parse"
    /\ extensions_json \in Trees(ParseKeys, ParseLeafValues, MaxDepth, MaxEntries)
    /\ vscode_json = <<>>
    /\ real_name = FALSE
    /\ versionize = FALSE
    /\ Idle
    /\ pending = <<>>

ParseExtensions ==
    /\ command = "parse"
    /\ pc = "call"
    /\ LET got == parse_extensions_json(extensions_json)
       IN /\ extension_paths' = got.paths
          /\ exc' = got.exc
          /\ pc' = IF got.exc = "none" THEN "returned" ELSE "raised"
    /\ UNCHANGED <<command, extensions_json, vscode_json, real_name, versionize,
                   vscode_specs, version_tasks, name_tasks, download_tasks, io,
                   dirs, files, requests, network, pending>>

NextParse == ParseExtensions

SpecParse == InitParse /\ [][NextParse]_vars

-----------------------------------------------------------------------------
(* download_extensions_json: from the call to the first await.             *)

BatchInputs ==
    <<command, extensions_json, vscode_json, real_name, versionize, network,
      pending>>

\* versionize_extension_paths up to its gather.
BeginVersions(paths) ==
    /\ version_tasks' = [i \in DOMAIN paths |->
                           VersionTask(MARKETPLACE_PAGE_LINK(paths[i].extension_id))]
    /\ pc' = "versions"
    /\ UNCHANGED <<exc, name_tasks, download_tasks, dirs>>

\* patch_extension_paths from real_name_tasks up to its gather: the URLs are
\* built while the list is, and an id that does not unpack raises there.
BeginNames(paths) ==
    /\ IF \A i \in DOMAIN paths : CanUnpack(paths[i].extension_id)
       THEN /\ name_tasks' = [i \in DOMAIN paths |->
                   NameTask(build_extension_download_url_from_ext_path(paths[i]))]
            /\ pc' = "names"
            /\ exc' = "none"
       ELSE /\ name_tasks' = <<>>
            /\ pc' = "raised"
            /\ exc' = "ValueError"
    /\ UNCHANGED <<download_tasks, dirs>>

\* The directory part of the path is dropped.
extension_save_name_only(ext_path) == <<Last(with_suffix(ext_path.path, VSIX))>>

\* save_path / ext_path.path.with_suffix('.vsix')
extension_full_save_path(ext_path) == with_suffix(ext_path.path, VSIX)

RECURSIVE mkdir_all(_, _)
mkdir_all(ds, paths) ==
    IF paths = <<>> THEN ds
    ELSE mkdir_all(mkdir(ds, Front(Head(paths))), Tail(paths))

\* download_extensions_json from download_extension_tasks up to its gather.
BeginDownloads(paths) ==
    LET full == [i \in DOMAIN paths |-> extension_full_save_path(paths[i])]
    IN /\ dirs' = mkdir_all(dirs, full)
       /\ download_tasks' = [i \in DOMAIN paths |->
             DownloadTask([extension_id |-> paths[i].extension_id,
                           version |-> paths[i].version], full[i])]
       /\ pc' = "downloads"
       /\ exc' = "none"

CallExtensions ==
    /\ command = "extensions"
    /\ pc = "call"
    /\ LET got == parse_extensions_json(extensions_json)
       IN IF got.exc # "none"
          THEN /\ pc' = "raised"
               /\ exc' = got.exc
               /\ UNCHANGED <<extension_paths, version_tasks, name_tasks,
                              download_tasks, dirs>>
          ELSE /\ extension_paths' = got.paths
               /\ IF real_name
                  THEN IF versionize
                       THEN BeginVersions(got.paths)
                       ELSE BeginNames(got.paths) /\ UNCHANGED version_tasks
                  ELSE BeginDownloads(got.paths)
                       /\ UNCHANGED <<version_tasks, name_tasks>>
    /\ UNCHANGED <<BatchInputs, vscode_specs, io, files, requests>>

-----------------------------------------------------------------------------
(* get_extension_version and the gather of versionize_extension_paths.     *)

\* The task is started by the event loop: get_request issues its GET.
StartVersion(i) ==
    /\ io = NoIO
    /\ Startable(version_tasks, i)
    /\ version_tasks' = [version_tasks EXCEPT ![i].st = "inflight"]
    /\ requests' = Sent(version_tasks[i].url)
    /\ UNCHANGED <<BatchInputs, pc, exc, extension_paths, vscode_specs,
                   name_tasks, download_tasks, io, dirs, files>>

\* The marketplace answers, or the request fails.
DeliverVersion(i) ==
    /\ io = NoIO
    /\ i \in DOMAIN version_tasks
    /\ version_tasks[i].st = "inflight"
    /\ \E resp \in VersionResponses :
         io' = [phase |-> "versions", i |-> i, resp |-> resp]
    /\ UNCHANGED <<BatchInputs, pc, exc, extension_paths, vscode_specs,
                   version_tasks, name_tasks, download_tasks, dirs, files, requests>>

\* The last token of the page instead of the first.
get_extension_version_last(resp) ==
    IF resp.ok /\ HasVersion(resp.text)
    THEN resp.text[CHOOSE i \in DOMAIN resp.text :
                     resp.text[i] \in Versions
                     /\ \A j \in (i + 1)..Len(resp.text) : resp.text[j] \notin Versions]
    ELSE "latest"

\* The try block of get_extension_version: every exception gives 'latest'.
get_extension_version(resp) ==
    IF resp.ok /\ HasVersion(resp.text) THEN version_search(resp.text) ELSE "latest"

FinishVersion ==
    /\ io.phase = "versions"
    /\ version_tasks' = [version_tasks EXCEPT
                           ![io.i].st = "done",
                           ![io.i].result = get_extension_version(io.resp)]
    /\ io' = NoIO
    /\ UNCHANGED <<BatchInputs, pc, exc, extension_paths, vscode_specs,
                   name_tasks, download_tasks, dirs, files, requests>>

\* The versions are given to the targets in the opposite order.
Versionized_reversed(paths, tasks) ==
    [i \in DOMAIN paths |->
       [paths[i] EXCEPT !.version = tasks[Len(tasks) + 1 - i].result]]

\* The zip loop of versionize_extension_paths.
Versionized(paths, tasks) ==
    [i \in DOMAIN paths |-> [paths[i] EXCEPT !.version = tasks[i].result]]

GatherVersions ==
    /\ pc = "versions"
    /\ io = NoIO
    /\ AllDone(version_tasks)
    /\ extension_paths' = Versionized(extension_paths, version_tasks)
    /\ BeginNames(extension_paths')
    /\ UNCHANGED <<BatchInputs, vscode_specs, version_tasks, io, files, requests>>

-----------------------------------------------------------------------------
(* utils.get_original_filename and the gather that awaits it.              *)

\* The session is open while the batch coroutine is inside its async with.
SessionOpen == pc \in {"versions", "names", "downloads"}

StartName(i) ==
    /\ io = NoIO
    /\ Startable(name_tasks, i)
    /\ IF SessionOpen
       THEN /\ name_tasks' = [name_tasks EXCEPT ![i].st = "inflight"]
            /\ requests' = Sent(name_tasks[i].url)
       ELSE /\ name_tasks' = [name_tasks EXCEPT ![i].st = "failed",
                                                 ![i].exc = "RuntimeError"]
            /\ UNCHANGED requests
    /\ UNCHANGED <<BatchInputs, pc, exc, extension_paths, vscode_specs,
                   version_tasks, download_tasks, io, dirs, files>>

\* The server answers, or the request fails; a closed session fails it.
DeliverName(i) ==
    /\ io = NoIO
    /\ i \in DOMAIN name_tasks
    /\ name_tasks[i].st = "inflight"
    /\ \E resp \in NameResponses(name_tasks[i].url) :
         /\ resp.ok => SessionOpen
         /\ io' = [phase |-> "names", i |-> i, resp |-> resp]
    /\ UNCHANGED <<BatchInputs, pc, exc, extension_paths, vscode_specs,
                   version_tasks, name_tasks, download_tasks, dirs, files, requests>>

\* A header without a file name falls back on the URL instead of raising.
get_original_filename_fallback(resp) ==
    IF resp.content_disposition.present /\ resp.content_disposition.filenames # <<>>
    THEN [exc |-> "none", name |-> resp.content_disposition.filenames[1]]
    ELSE [exc |-> "none", name |-> PathName(resp.url)]

\* The body of get_original_filename on a response.
get_original_filename(resp) ==
    IF resp.content_disposition.present
    THEN IF resp.content_disposition.filenames = <<>>
         THEN [exc |-> "IndexError", name |-> <<>>]
         ELSE [exc |-> "none", name |-> resp.content_disposition.filenames[1]]
    ELSE [exc |-> "none", name |-> PathName(resp.url)]

FinishName ==
    /\ io.phase = "names"
    /\ LET got == IF io.resp.ok THEN get_original_filename(io.resp)
                  ELSE [exc |-> "ClientError", name |-> <<>>]
       IN name_tasks' = [name_tasks EXCEPT
                           ![io.i].st = IF got.exc = "none" THEN "done" ELSE "failed",
                           ![io.i].result = got.name,
                           ![io.i].exc = got.exc]
    /\ io' = NoIO
    /\ UNCHANGED <<BatchInputs, pc, exc, extension_paths, vscode_specs,
                   version_tasks, download_tasks, dirs, files, requests>>

\* asyncio.gather without return_exceptions: the first exception of a task
\* is raised in the awaiting coroutine, which leaves its async with.
GatherNamesRaise ==
    /\ pc = "names"
    /\ io = NoIO
    /\ \E i \in DOMAIN name_tasks :
         /\ name_tasks[i].st = "failed"
         /\ exc' = name_tasks[i].exc
    /\ pc' = "raised"
    /\ UNCHANGED <<BatchInputs, extension_paths, vscode_specs, version_tasks,
                   name_tasks, download_tasks, io, dirs, files, requests>>

\* The names are given to the targets in the opposite order.
Patched_reversed(paths, tasks, upto) ==
    [i \in DOMAIN paths |->
       IF i <= upto
       THEN [paths[i] EXCEPT
               !.path = with_name(paths[i].path, tasks[Len(tasks) + 1 - i].result)]
       ELSE paths[i]]

\* The zip loop of patch_extension_paths: with_name raises at the first
\* name it refuses, the paths before it are patched.
Patched(paths, tasks, upto) ==
    [i \in DOMAIN paths |->
       IF i <= upto THEN [paths[i] EXCEPT !.path = with_name(paths[i].path, tasks[i].result)]
       ELSE paths[i]]

GatherNamesExtensions ==
    /\ command = "extensions"
    /\ pc = "names"
    /\ io = NoIO
    /\ AllDone(name_tasks)
    /\ LET bad == {i \in DOMAIN name_tasks : ~ValidName(name_tasks[i].result)}
       IN IF bad = {}
          THEN /\ extension_paths' =
                    Patched(extension_paths, name_tasks, Len(extension_paths))
               /\ BeginDownloads(extension_paths')
          ELSE LET k == CHOOSE i \in bad : \A j \in bad : i <= j
               IN /\ extension_paths' = Patched(extension_paths, name_tasks, k - 1)
                  /\ pc' = "raised"
                  /\ exc' = "ValueError"
                  /\ UNCHANGED <<download_tasks, dirs>>
    /\ UNCHANGED <<BatchInputs, vscode_specs, version_tasks, name_tasks, io,
                   files, requests>>

-----------------------------------------------------------------------------
(* patch_extension_paths called on its own, twice on one list, while every *)
(* URL is answered the same way each time it is requested.                 *)

\* The pages the marketplace answers with here: at most one piece long.
PageResponses == {r \in VersionResponses : Len(r.text) <= 1}

PageUrls(paths) ==
    {MARKETPLACE_PAGE_LINK(paths[i].extension_id) : i \in DOMAIN paths}

FileUrls(paths) ==
    {build_extension_download_url_from_ext_path(paths[i]) : i \in DOMAIN paths}

NameAnswers(urls) ==
    {f \in [urls -> UNION {NameResponses(u) : u \in urls}] :
       \A u \in urls : f[u] \in NameResponses(u)}

\* A URL answered before is answered the same way again: only the URLs not
\* requested so far get an answer, which is kept.
Unknown(net, urls) == urls \ DOMAIN net

Learned(net, answers) ==
    [u \in DOMAIN net \cup DOMAIN answers |->
       IF u \in DOMAIN net THEN net[u] ELSE answers[u]]

\* One GET request for each URL of a list.
RECURSIVE SentAll(_, _)
SentAll(bag, urls) ==
    IF urls = <<>> THEN bag
    ELSE SentAll(bag (+) SetToBag({Head(urls)}), Tail(urls))

\* The version is put at the end of the path as well.
versionize_appending(paths, pages) ==
    [i \in DOMAIN paths |->
       LET version == get_extension_version(
                        pages[MARKETPLACE_PAGE_LINK(paths[i].extension_id)])
       IN [paths[i] EXCEPT !.version = version, !.path = @ \o <<<<version>>>>]]

\* versionize_extension_paths, every lookup answered by pages.
versionize_extension_paths(paths, pages) ==
    Versionized(paths,
       [i \in DOMAIN paths |->
          [result |-> get_extension_version(
                        pages[MARKETPLACE_PAGE_LINK(paths[i].extension_id)])]])

\* What the get_original_filename of every target ends with.
real_names(paths, answers) ==
    [i \in DOMAIN paths |->
       LET resp == answers[build_extension_download_url_from_ext_path(paths[i])]
       IN IF resp.ok THEN get_original_filename(resp)
          ELSE [exc |-> "ClientError", name |-> <<>>]]

\* One call of patch_extension_paths, from its first line to its return or
\* to the exception that leaves it.
PatchExtensionPaths ==
    /\ command = "patch"
    /\ pc \in {"call", "once"}
    /\ pc' = IF pc = "call" THEN "once" ELSE "twice"
    /\ LET looked_up == IF versionize
                        THEN [i \in DOMAIN extension_paths |->
                                MARKETPLACE_PAGE_LINK(extension_paths[i].extension_id)]
                        ELSE <<>>
       IN \E pages \in [Unknown(network, Range(looked_up)) -> PageResponses] :
            LET net == Learned(network, pages)
                versioned == IF versionize
                             THEN versionize_extension_paths(extension_paths, net)
                             ELSE extension_paths
            IN IF \E i \in DOMAIN versioned : ~CanUnpack(versioned[i].extension_id)
               THEN /\ extension_paths' = versioned
                    /\ exc' = "ValueError"
                    /\ network' = net
                    /\ requests' = SentAll(requests, looked_up)
               ELSE \E answers \in NameAnswers(Unknown(net, FileUrls(versioned))) :
                      /\ network' = Learned(net, answers)
                      /\ requests' =
                           SentAll(SentAll(requests, looked_up),
                                   [i \in DOMAIN versioned |->
                                      build_extension_download_url_from_ext_path(versioned[i])])
                      /\ LET got == real_names(versioned, network')
                             tasks == [i \in DOMAIN got |-> [result |-> got[i].name]]
                             failed == {i \in DOMAIN got : got[i].exc # "none"}
                             bad == {i \in DOMAIN got : ~ValidName(got[i].name)}
                         IN IF failed # {}
                            THEN /\ extension_paths' = versioned
                                 /\ \E i \in failed : exc' = got[i].exc
                            ELSE IF bad # {}
                            THEN /\ extension_paths' =
                                      Patched(versioned, tasks,
                                              (CHOOSE i \in bad : \A j \in bad : i <= j) - 1)
                                 /\ exc' = "ValueError"
                            ELSE /\ extension_paths' =
                                      Patched(versioned, tasks, Len(versioned))
                                 /\ exc' = "none"
    /\ UNCHANGED <<command, extensions_json, vscode_json, real_name, versionize,
                   vscode_specs, version_tasks, name_tasks, download_tasks, io,
                   dirs, files, pending>>

InitPatch ==
    /\ command = "patch"
    /\ extensions_json \in {tree \in Trees(Keys, LeafValues, MaxDepth, MaxTargets) :
                              parse_extensions_json(tree).exc = "none"}
    /\ extension_paths = parse_extensions_json(extensions_json).paths
    /\ vscode_json = <<>>
    /\ real_name = TRUE
    /\ versionize \in BOOLEAN
    /\ pc = "call"
    /\ exc = "none"
    /\ vscode_specs = <<>>
    /\ version_tasks = <<>>
    /\ name_tasks = <<>>
    /\ download_tasks = <<>>
    /\ io = NoIO
    /\ dirs = {}
    /\ files = <<>>
    /\ requests = EmptyBag
    /\ network = <<>>
    /\ pending = <<>>

NextPatch == PatchExtensionPaths

SpecPatch == InitPatch /\ [][NextPatch]_vars

-----------------------------------------------------------------------------
(* utils.download_url under download_extension_by_id or download_vscode.   *)

\* The version the task was given is not used: always the latest.
DownloadUrlLatest(task) ==
    IF command = "extensions"
    THEN LET pieces == split_id(task.args.extension_id)
         IN build_extension_download_url(pieces[2], pieces[1], "latest")
    ELSE build_vscode_download_url(task.args.platform, task.args.build, "latest")

\* The URL a download coroutine builds when it starts.
DownloadUrl(task) ==
    IF command = "extensions"
    THEN LET pieces == split_id(task.args.extension_id)
         IN build_extension_download_url(pieces[2], pieces[1], task.args.version)
    ELSE build_vscode_download_url(task.args.platform, task.args.build,
                                   task.args.version)

StartDownload(i) ==
    /\ io = NoIO
    /\ Startable(download_tasks, i)
    /\ IF command = "extensions" /\ ~CanUnpack(download_tasks[i].args.extension_id)
       THEN /\ download_tasks' = [download_tasks EXCEPT ![i].st = "failed",
                                                         ![i].exc = "ValueError"]
            /\ UNCHANGED requests
       ELSE IF SessionOpen
       THEN /\ download_tasks' = [download_tasks EXCEPT
                                    ![i].st = "inflight",
                                    ![i].url = DownloadUrl(download_tasks[i])]
            /\ requests' = Sent(DownloadUrl(download_tasks[i]))
       ELSE /\ download_tasks' = [download_tasks EXCEPT
                                    ![i].st = "failed",
                                    ![i].url = DownloadUrl(download_tasks[i]),
                                    ![i].exc = "RuntimeError"]
            /\ UNCHANGED requests
    /\ UNCHANGED <<BatchInputs, pc, exc, extension_paths, vscode_specs,
                   version_tasks, name_tasks, io, dirs, files>>

\* get_request returns the body: the task goes on to open its file.
DownloadResponds(i) ==
    /\ io = NoIO
    /\ i \in DOMAIN download_tasks
    /\ download_tasks[i].st = "inflight"
    /\ SessionOpen
    /\ download_tasks' = [download_tasks EXCEPT
                            ![i].st = "opening",
                            ![i].data = Body(download_tasks[i].url)]
    /\ UNCHANGED <<BatchInputs, pc, exc, extension_paths, vscode_specs,
                   version_tasks, name_tasks, io, dirs, files, requests>>

\* get_request raises and the download is put back to be started again.
DownloadRequestRetried(i) ==
    /\ io = NoIO
    /\ i \in DOMAIN download_tasks
    /\ download_tasks[i].st = "inflight"
    /\ download_tasks' = [download_tasks EXCEPT ![i].st = "scheduled"]
    /\ UNCHANGED <<BatchInputs, pc, exc, extension_paths, vscode_specs,
                   version_tasks, name_tasks, io, dirs, files, requests>>

\* get_request raises: download_url ends before it opens the file.
DownloadRequestFails(i) ==
    /\ io = NoIO
    /\ i \in DOMAIN download_tasks
    /\ download_tasks[i].st = "inflight"
    /\ download_tasks' = [download_tasks EXCEPT ![i].st = "failed",
                                                 ![i].exc = "ClientError"]
    /\ UNCHANGED <<BatchInputs, pc, exc, extension_paths, vscode_specs,
                   version_tasks, name_tasks, io, dirs, files, requests>>

\* aiofiles.open(save_path, 'wb') creates or truncates the file.
OpenFile(i) ==
    /\ io = NoIO
    /\ i \in DOMAIN download_tasks
    /\ download_tasks[i].st = "opening"
    /\ download_tasks' = [download_tasks EXCEPT ![i].st = "writing"]
    /\ files' = Stored(files, download_tasks[i].save_path,
                       Truncated(download_tasks[i].url))
    /\ UNCHANGED <<BatchInputs, pc, exc, extension_paths, vscode_specs,
                   version_tasks, name_tasks, io, dirs, requests>>

\* save_file.write(data) and the close of the file.
WriteFile(i) ==
    /\ io = NoIO
    /\ i \in DOMAIN download_tasks
    /\ download_tasks[i].st = "writing"
    /\ download_tasks' = [download_tasks EXCEPT ![i].st = "done"]
    /\ files' = Stored(files, download_tasks[i].save_path,
                       Complete(download_tasks[i].data))
    /\ UNCHANGED <<BatchInputs, pc, exc, extension_paths, vscode_specs,
                   version_tasks, name_tasks, io, dirs, requests>>

\* The write raises (disk full, I/O error): the opened file stays as it is.
WriteFails(i) ==
    /\ io = NoIO
    /\ i \in DOMAIN download_tasks
    /\ download_tasks[i].st = "writing"
    /\ download_tasks' = [download_tasks EXCEPT ![i].st = "failed",
                                                 ![i].exc = "OSError"]
    /\ UNCHANGED <<BatchInputs, pc, exc, extension_paths, vscode_specs,
                   version_tasks, name_tasks, io, dirs, files, requests>>

GatherDownloadsRaise ==
    /\ pc = "downloads"
    /\ io = NoIO
    /\ \E i \in DOMAIN download_tasks :
         /\ download_tasks[i].st = "failed"
         /\ exc' = download_tasks[i].exc
    /\ pc' = "raised"
    /\ UNCHANGED <<BatchInputs, extension_paths, vscode_specs, version_tasks,
                   name_tasks, download_tasks, io, dirs, files, requests>>

\* A gather that returns as soon as one download is done.
GatherDownloadsFirst ==
    /\ pc = "downloads"
    /\ io = NoIO
    /\ \E i \in DOMAIN download_tasks : download_tasks[i].st = "done"
    /\ pc' = "returned"
    /\ UNCHANGED <<BatchInputs, exc, extension_paths, vscode_specs, version_tasks,
                   name_tasks, download_tasks, io, dirs, files, requests>>

GatherDownloads ==
    /\ pc = "downloads"
    /\ io = NoIO
    /\ AllDone(download_tasks)
    /\ pc' = "returned"
    /\ UNCHANGED <<BatchInputs, exc, extension_paths, vscode_specs, version_tasks,
                   name_tasks, download_tasks, io, dirs, files, requests>>

\* asyncio.run cancels the tasks still pending once the batch has raised.
CancelName(i) ==
    /\ io = NoIO
    /\ pc = "raised"
    /\ i \in DOMAIN name_tasks
    /\ ~Ended(name_tasks[i])
    /\ name_tasks' = [name_tasks EXCEPT ![i].st = "cancelled"]
    /\ UNCHANGED <<BatchInputs, pc, exc, extension_paths, vscode_specs,
                   version_tasks, download_tasks, io, dirs, files, requests>>

CancelDownload(i) ==
    /\ io = NoIO
    /\ pc = "raised"
    /\ i \in DOMAIN download_tasks
    /\ ~Ended(download_tasks[i])
    /\ download_tasks' = [download_tasks EXCEPT ![i].st = "cancelled"]
    /\ UNCHANGED <<BatchInputs, pc, exc, extension_paths, vscode_specs,
                   version_tasks, name_tasks, io, dirs, files, requests>>

-----------------------------------------------------------------------------
(* vscode_downloader.py: download_vscode_json.                             *)

LATEST_VERSION == "latest"
STABLE == "stable"

Platforms == {<<"darwin">>, <<"linux-x64">>}

\* The objects of a "vscode" section: platform, build and version are each
\* present or not.
SpecDicts ==
    LET platform == {[platform |-> p] : p \in Platforms} \cup {<<>>}
        build == {[build |-> "insider"], <<>>}
        version == {[version |-> "1.0"], <<>>}
    IN {p @@ b @@ v : p \in platform, b \in build, v \in version}

ListJson(l) == [t |-> "list", v |-> l]
DictJson(d) == [t |-> "dict", v |-> d]

VSCodeJsons ==
    {ListJson(l) : l \in UNION {[1..n -> SpecDicts] : n \in 0..MaxTargets}}
    \cup {DictJson(d) : d \in SpecDicts}

\* The value given for the key is not looked at.
GetDefault(dict, key, default) == default

\* spec.get(key, default)
Get(dict, key, default) == IF key \in DOMAIN dict THEN dict[key] ELSE default

\* _parse_vscode_specification_dict: spec['platform'] raises KeyError.
parse_vscode_specification_dict(specification) ==
    IF \E i \in DOMAIN specification : "platform" \notin DOMAIN specification[i]
    THEN [exc |-> "KeyError", specs |-> <<>>]
    ELSE [exc |-> "none",
          specs |-> [i \in DOMAIN specification |->
                       [platform |-> specification[i]["platform"],
                        build |-> Get(specification[i], "build", STABLE),
                        version |-> Get(specification[i], "version", LATEST_VERSION)]]]

\* A config file without a "vscode" section.
NoSection == [t |-> "absent", v |-> <<>>]

\* parse_vscode_json: json.load(json_file)['vscode'] raises KeyError when
\* the file has no such section; a value that is not a list is made one.
parse_vscode_json(json_data) ==
    IF json_data.t = "absent"
    THEN [exc |-> "KeyError", specs |-> <<>>]
    ELSE parse_vscode_specification_dict(
             IF json_data.t = "list" THEN json_data.v ELSE <<json_data.v>>)

CallEditor ==
    /\ command = "editor"
    /\ pc = "call"
    /\ LET got == parse_vscode_json(vscode_json)
       IN IF got.exc # "none"
          THEN /\ pc' = "raised"
               /\ exc' = got.exc
               /\ UNCHANGED <<vscode_specs, name_tasks>>
          ELSE /\ vscode_specs' = got.specs
               /\ name_tasks' = [i \in DOMAIN got.specs |->
                     NameTask(build_vscode_download_url_from_spec(got.specs[i]))]
               /\ pc' = "names"
               /\ UNCHANGED exc
    /\ UNCHANGED <<BatchInputs, extension_paths, version_tasks, download_tasks, io,
                   dirs, files, requests>>

\* The platform directory is left out.
vscode_save_path_no_platform(spec, filename) == PathParts(filename)

\* save_path / spec.platform / filename
vscode_full_save_path(spec, filename) ==
    JoinPath(PathParts(spec.platform), PathParts(filename))

GatherNamesEditor ==
    /\ command = "editor"
    /\ pc = "names"
    /\ io = NoIO
    /\ AllDone(name_tasks)
    /\ LET full == [i \in DOMAIN vscode_specs |->
                      vscode_full_save_path(vscode_specs[i], name_tasks[i].result)]
       IN /\ dirs' = mkdir_all(dirs, full)
          /\ download_tasks' = [i \in DOMAIN vscode_specs |->
                                  DownloadTask(vscode_specs[i], full[i])]
    /\ pc' = "downloads"
    /\ UNCHANGED <<BatchInputs, exc, extension_paths, vscode_specs, version_tasks,
                   name_tasks, io, files, requests>>

-----------------------------------------------------------------------------
(* One invocation of a batch.                                              *)

Init ==
    /\ \/ /\ command = "extensions"
          /\ extensions_json \in Trees(Keys, LeafValues, MaxDepth, MaxTargets)
          /\ real_name \in BOOLEAN
          /\ versionize \in BOOLEAN
          /\ vscode_json = ListJson(<<>>)
       \/ /\ command = "editor"
          /\ vscode_json \in VSCodeJsons
          /\ extensions_json = <<>>
          /\ real_name = FALSE
          /\ versionize = FALSE
    /\ Idle
    /\ pending = <<>>

Next ==
    \/ CallExtensions
    \/ CallEditor
    \/ \E i \in 1..MaxTargets :
         \/ StartVersion(i)
         \/ DeliverVersion(i)
         \/ StartName(i)
         \/ DeliverName(i)
         \/ StartDownload(i)
         \/ DownloadResponds(i)
         \/ DownloadRequestFails(i)
         \/ OpenFile(i)
         \/ WriteFile(i)
         \/ WriteFails(i)
         \/ CancelName(i)
         \/ CancelDownload(i)
    \/ FinishVersion
    \/ FinishName
    \/ GatherVersions
    \/ GatherNamesRaise
    \/ GatherNamesExtensions
    \/ GatherNamesEditor
    \/ GatherDownloadsRaise
    \/ GatherDownloads

Spec == Init /\ [][Next]_vars

-----------------------------------------------------------------------------
(* scripts/vscod.py: the config command runs download_vscode_json, then    *)
(* download_extensions_json with its defaults, on one config file.         *)

\* The "vscode" sections of the config files: absent, an object, or a list
\* of objects that give their platform, or nothing, only.
ConfigVSCodeJsons ==
    LET dicts == {d \in SpecDicts : DOMAIN d \subseteq {"platform"}}
    IN {NoSection}
       \cup {DictJson(d) : d \in dicts}
       \cup {ListJson(l) : l \in UNION {[1..n -> dicts] : n \in 0..MaxTargets}}

\* The await of download_vscode_json is passed without raising; the one
\* that handed the batch over before the editor batch has ended.
NextBatchAnyway ==
    /\ pending # <<>>
    /\ io = NoIO
    /\ pc \in {"returned", "raised"}
    /\ command' = Head(pending)
    /\ pending' = Tail(pending)
    /\ pc' = "call"
    /\ exc' = "none"
    /\ version_tasks' = <<>>
    /\ name_tasks' = <<>>
    /\ download_tasks' = <<>>
    /\ UNCHANGED <<extensions_json, vscode_json, real_name, versionize,
                   extension_paths, vscode_specs, io, dirs, files, requests,
                   network>>

\* config, from the return of download_vscode_json to the call of
\* download_extensions_json: the lists of the batch that returned are gone.
NextBatch ==
    /\ pending # <<>>
    /\ io = NoIO
    /\ pc = "returned"
    /\ command' = Head(pending)
    /\ pending' = Tail(pending)
    /\ pc' = "call"
    /\ exc' = "none"
    /\ version_tasks' = <<>>
    /\ name_tasks' = <<>>
    /\ download_tasks' = <<>>
    /\ UNCHANGED <<extensions_json, vscode_json, real_name, versionize,
                   extension_paths, vscode_specs, io, dirs, files, requests,
                   network>>

InitConfig ==
    /\ command = "editor"
    /\ vscode_json \in ConfigVSCodeJsons
    /\ extensions_json \in Trees(Keys, LeafValues, MaxDepth, MaxConfigTargets)
    /\ real_name = TRUE
    /\ versionize = TRUE
    /\ Idle
    /\ pending = <<"extensions">>

NextConfig == Next \/ NextBatch

SpecConfig == InitConfig /\ [][NextConfig]_vars

-----------------------------------------------------------------------------
(* The claims.                                                             *)

Targets == IF command = "editor" THEN vscode_specs ELSE extension_paths

Every(tasks, st) == \A i \in DOMAIN tasks : tasks[i].st = st

\* C1: for every extension target the version lookup is complete, and its
\* result is the version in the URL, when the URL its filename resolution
\* probes is built; and every version lookup and filename resolution of the
\* batch is complete before a download request is dispatched.
C1_PhasesOrdered ==
    command = "extensions" =>
      /\ (real_name /\ versionize) =>
           \A i \in DOMAIN name_tasks :
             /\ i \in DOMAIN version_tasks
             /\ version_tasks[i].st = "done"
             /\ name_tasks[i].url[6] = <<version_tasks[i].result>>
      /\ \A i \in DOMAIN download_tasks :
           download_tasks[i].st # "scheduled" =>
             /\ Every(version_tasks, "done")
             /\ Every(name_tasks, "done")
             /\ real_name => Len(name_tasks) = Len(extension_paths)
             /\ (real_name /\ versionize) =>
                  Len(version_tasks) = Len(extension_paths)

C1_Witness ==
    /\ command = "extensions"
    /\ real_name /\ versionize
    /\ Len(extension_paths) = 2
    /\ \E i \in DOMAIN download_tasks : download_tasks[i].st = "inflight"
    /\ \E i \in DOMAIN version_tasks : version_tasks[i].result = "2.0"

\* The version get_extension_version is to return for a response: the first
\* token of the page, 'latest' when the fetch failed or the page has none.
FirstToken(resp) ==
    LET tokens == SelectSeq(resp.text, LAMBDA piece : piece \in Versions)
    IN IF ~resp.ok \/ tokens = <<>> THEN "latest" ELSE Head(tokens)

NoFilename(resp) ==
    \/ ~resp.ok
    \/ resp.content_disposition.present /\ resp.content_disposition.filenames = <<>>

NameResolutionFailed ==
    \/ \E i \in DOMAIN name_tasks : name_tasks[i].st = "failed"
    \/ /\ command = "extensions"
       /\ pc # "names"
       /\ name_tasks # <<>>
       /\ Every(name_tasks, "done")
       /\ \E i \in DOMAIN name_tasks : ~ValidName(name_tasks[i].result)

\* C3: a failure of the filename resolution of one target is not swallowed:
\* the task of that target fails, the batch coroutine can then only raise,
\* and once the resolution has failed the batch never dispatches a download,
\* creates no directory and writes no file.
C3_NameFailureFailsBatch ==
    /\ [](NameResolutionFailed =>
            /\ pc \in {"names", "raised"}
            /\ download_tasks = <<>>
            /\ files = <<>>
            /\ dirs = {}
            /\ (pc = "names" /\ io = NoIO) =>
                 /\ ENABLED GatherNamesRaise
                 /\ ~ENABLED GatherNamesExtensions
                 /\ ~ENABLED GatherNamesEditor)
    /\ [][(io.phase = "names" /\ NoFilename(io.resp)) =>
            name_tasks'[io.i].st = "failed"]_vars

C3_Witness ==
    /\ pc = "raised"
    /\ exc = "IndexError"
    /\ Len(name_tasks) = 2
    /\ name_tasks[1].st = "done"
    /\ name_tasks[2].st = "failed"

\* C4: a batch returns only when every download is done and the file of
\* every target is written in full; when it has left the gather of the
\* downloads either every download is done or one has failed; and after a
\* download failed the batch can only raise.
C4_ReturnsAfterAll ==
    /\ pc = "returned" =>
         /\ Len(download_tasks) = Len(Targets)
         /\ \A i \in DOMAIN download_tasks :
              /\ download_tasks[i].st = "done"
              /\ download_tasks[i].save_path \in DOMAIN files
              /\ files[download_tasks[i].save_path].written = "full"
    /\ (pc = "raised" /\ download_tasks # <<>>) =>
         \E i \in DOMAIN download_tasks : download_tasks[i].st = "failed"
    /\ (\E i \in DOMAIN download_tasks : download_tasks[i].st = "failed") =>
         /\ pc \in {"downloads", "raised"}
         /\ (pc = "downloads" /\ io = NoIO) =>
              ENABLED GatherDownloadsRaise /\ ~ENABLED GatherDownloads

C4_Witness ==
    /\ pc = "returned"
    /\ Len(download_tasks) = 2
    /\ download_tasks[1].save_path # download_tasks[2].save_path

\* C5: the start of a request never waits for another request of its phase:
\* whenever the event loop is free, every task of a gather that has not
\* started can start, whatever the state of the others.
C5_DispatchIndependent ==
    io = NoIO =>
      /\ \A i \in DOMAIN version_tasks :
           version_tasks[i].st = "scheduled" => ENABLED StartVersion(i)
      /\ \A i \in DOMAIN name_tasks :
           name_tasks[i].st = "scheduled" => ENABLED StartName(i)
      /\ \A i \in DOMAIN download_tasks :
           download_tasks[i].st = "scheduled" => ENABLED StartDownload(i)

\* All the requests of a phase of a batch of two are in flight together.
C5_Witness ==
    /\ Len(download_tasks) = 2
    /\ Every(download_tasks, "inflight")
    /\ BagCardinality(requests) = 6

SavePathsDistinct ==
    \A i, j \in DOMAIN download_tasks :
      i # j => download_tasks[i].save_path # download_tasks[j].save_path

\* C6 as stated: in an extension batch the targets are written to pairwise
\* distinct paths, for every specification tree and all resolved filenames.
C6_AllPathsDistinct == command = "extensions" => SavePathsDistinct

\* Every key of the tree, at every level, is one plain path segment.
RECURSIVE PlainKeys(_)
PlainKeys(tree) ==
    \A i \in DOMAIN tree :
      /\ PathParts(tree[i].key) = <<tree[i].key>>
      /\ tree[i].value.t = "dict" => PlainKeys(tree[i].value.d)

\* C6 amended: when every key of the specification tree is one plain path
\* segment, the targets of an extension batch are written to pairwise
\* distinct paths, whatever filenames are resolved.
C6_PlainKeysDistinct ==
    (command = "extensions" /\ PlainKeys(extensions_json)) => SavePathsDistinct

\* Two targets under plain keys that resolve to the same file name.
C6_Witness ==
    /\ command = "extensions"
    /\ real_name
    /\ PlainKeys(extensions_json)
    /\ Len(download_tasks) = 2
    /\ Last(download_tasks[1].save_path) = Last(download_tasks[2].save_path)
    /\ Every(download_tasks, "writing")

\* C7 as stated: in an editor batch the targets are written to pairwise
\* distinct paths, for every specification list.
C7_EditorPathsDistinct == command = "editor" => SavePathsDistinct

\* C7 amended: an editor target whose resolved filename is one path segment
\* is written to <platform>/<filename>, so two such targets of a batch are
\* written to the same path exactly when they have the same platform and the
\* same resolved filename.
C7_SamePathIffSameTarget ==
    command = "editor" =>
      \A i, j \in DOMAIN download_tasks :
        (ValidName(name_tasks[i].result) /\ ValidName(name_tasks[j].result)) =>
          /\ download_tasks[i].save_path =
               <<vscode_specs[i].platform, name_tasks[i].result>>
          /\ download_tasks[i].save_path = download_tasks[j].save_path
               <=> /\ vscode_specs[i].platform = vscode_specs[j].platform
                   /\ name_tasks[i].result = name_tasks[j].result

\* The same platform twice, written to two paths.
C7_Witness ==
    /\ command = "editor"
    /\ Len(download_tasks) = 2
    /\ vscode_specs[1].platform = vscode_specs[2].platform
    /\ download_tasks[1].save_path # download_tasks[2].save_path
    /\ Every(download_tasks, "done")

\* C8 as stated: once a download task has ended, by success or by a failure
\* of its request or of its write, the file at its final path does not exist
\* or holds the complete body.
C8_NoPartialFile ==
    \A i \in DOMAIN download_tasks :
      download_tasks[i].st \in {"done", "failed"} =>
        \/ download_tasks[i].save_path \notin DOMAIN files
        \/ files[download_tasks[i].save_path].written = "full"

\* C8 amended: for a target that shares its path with no other target, the
\* file does not exist before the task has opened it nor after its request
\* failed, it holds the complete response body once the task is done, and it
\* is left partial when the write fails.
C8_PartialOnlyAfterFailedWrite ==
    \A i \in DOMAIN download_tasks :
      LET task == download_tasks[i]
      IN (\A j \in DOMAIN download_tasks : j # i => download_tasks[j].save_path # task.save_path)
         =>
         /\ task.st \in {"scheduled", "inflight", "opening"} =>
              task.save_path \notin DOMAIN files
         /\ (task.st = "failed" /\ task.exc # "OSError") =>
              task.save_path \notin DOMAIN files
         /\ task.st = "done" =>
              /\ task.save_path \in DOMAIN files
              /\ files[task.save_path] = [written |-> "full", body |-> task.data]
              /\ task.data = task.url
         /\ (task.st = "failed" /\ task.exc = "OSError") =>
              /\ task.save_path \in DOMAIN files
              /\ files[task.save_path].written = "partial"

\* One request failed and left no file, one write failed and left a partial file.
C8_Witness ==
    /\ Len(download_tasks) = 2
    /\ download_tasks[1].st = "failed" /\ download_tasks[1].exc = "ClientError"
    /\ download_tasks[1].save_path \notin DOMAIN files
    /\ download_tasks[2].st = "failed" /\ download_tasks[2].exc = "OSError"
    /\ download_tasks[2].save_path \in DOMAIN files

\* A value of the tree, at any depth, is neither a str nor a dict, or is the
\* empty str.
RECURSIVE Malformed(_)
Malformed(tree) ==
    \E i \in DOMAIN tree :
      \/ tree[i].value.t \notin {"str", "dict"}
      \/ tree[i].value.t = "str" /\ tree[i].value.s = <<>>
      \/ tree[i].value.t = "dict" /\ Malformed(tree[i].value.d)

\* C9: on a malformed extension specification download_extensions_json
\* raises, having issued no request, created no task and no directory and
\* written no file.
C9_MalformedAbortsFirst ==
    (command = "extensions" /\ Malformed(extensions_json) /\ pc # "call") =>
      /\ pc = "raised"
      /\ exc \in {"ValueError", "TypeError"}
      /\ requests = EmptyBag
      /\ version_tasks = <<>> /\ name_tasks = <<>> /\ download_tasks = <<>>
      /\ dirs = {}
      /\ files = <<>>

\* The bad value comes after a good one.
C9_Witness ==
    /\ command = "extensions"
    /\ pc = "raised"
    /\ Len(extensions_json) = 2
    /\ extensions_json[1].value.t = "str" /\ extensions_json[1].value.s # <<>>
    /\ Malformed(extensions_json)

\* The places of the str values of a tree: the indexes from the root down.
RECURSIVE Leaves(_)
Leaves(tree) ==
    UNION { IF tree[i].value.t = "str" THEN {<<i>>}
            ELSE IF tree[i].value.t = "dict"
            THEN {<<i>> \o a : a \in Leaves(tree[i].value.d)}
            ELSE {}
            : i \in DOMAIN tree }

RECURSIVE LeafAt(_, _)
LeafAt(tree, a) ==
    IF Len(a) = 1 THEN tree[a[1]].value.s ELSE LeafAt(tree[a[1]].value.d, Tail(a))

\* C10: when parse_extensions_json returns, its list has exactly one target
\* per str value of the tree (as many targets as leaves, and for every id as
\* many targets as leaves with that value).
C10_OneTargetPerLeaf ==
    (command = "parse" /\ pc = "returned") =>
      /\ Len(extension_paths) = Cardinality(Leaves(extensions_json))
      /\ \A id \in ExtensionIds :
           Cardinality({i \in DOMAIN extension_paths :
                          extension_paths[i].extension_id = id})
           = Cardinality({a \in Leaves(extensions_json) :
                            LeafAt(extensions_json, a) = id})
      /\ \A i \in DOMAIN extension_paths :
           extension_paths[i].extension_id \in ExtensionIds

\* Two leaves with different ids in one nested dict.
C10_Witness ==
    /\ command = "parse"
    /\ pc = "returned"
    /\ Len(extension_paths) = 2
    /\ Len(extensions_json) = 1
    /\ extension_paths[1].extension_id # extension_paths[2].extension_id

\* The keys from the root of a tree down to the leaf at the place a.
RECURSIVE KeysTo(_, _)
KeysTo(tree, a) ==
    IF Len(a) = 1 THEN <<tree[a[1]].key>>
    ELSE <<tree[a[1]].key>> \o KeysTo(tree[a[1]].value.d, Tail(a))

\* The strings of a sequence written one after the other with '/' between.
RECURSIVE Slashed(_)
Slashed(strs) ==
    IF Len(strs) = 1 THEN strs[1] ELSE strs[1] \o <<SEP>> \o Slashed(Tail(strs))

\* currentPrefix/key/value for the leaf at a: the path written as the keys
\* from the root down to the leaf, then the value of the leaf.
KeysThenValue(tree, a) ==
    PathParts(Slashed(KeysTo(tree, a) \o <<LeafAt(tree, a)>>))

\* C11: for every leaf of the tree, at any depth, the parser emits a target
\* whose extension id is the value of the leaf and whose path is the keys from
\* the root down to the leaf followed by that value, and it emits no target
\* with another path.
C11_PathIsKeysThenValue ==
    (command = "parse" /\ pc = "returned") =>
      /\ \A a \in Leaves(extensions_json) :
           \E i \in DOMAIN extension_paths :
             /\ extension_paths[i].extension_id = LeafAt(extensions_json, a)
             /\ extension_paths[i].path = KeysThenValue(extensions_json, a)
      /\ \A i \in DOMAIN extension_paths :
           \E a \in Leaves(extensions_json) :
             /\ extension_paths[i].extension_id = LeafAt(extensions_json, a)
             /\ extension_paths[i].path = KeysThenValue(extensions_json, a)

\* A leaf comes before another in the depth-first traversal of the tree, the
\* items of every dict taken in insertion order.
RECURSIVE Precedes(_, _)
Precedes(a, b) ==
    /\ a # <<>>
    /\ b # <<>>
    /\ \/ a[1] < b[1]
       \/ a[1] = b[1] /\ Precedes(Tail(a), Tail(b))

\* The position of a leaf in the traversal.
Rank(tree, a) == Cardinality({b \in Leaves(tree) : Precedes(b, a)}) + 1

\* C12: the list parse_extensions_json returns is in the depth-first
\* traversal order of the tree, the keys of each dict in insertion order: the
\* target at the position a leaf has in the traversal is the target of that
\* leaf, so the targets of a nested dict are together at the place of its key.
C12_TraversalOrder ==
    (command = "parse" /\ pc = "returned") =>
      \A a \in Leaves(extensions_json) :
        /\ Rank(extensions_json, a) \in DOMAIN extension_paths
        /\ extension_paths[Rank(extensions_json, a)].extension_id
             = LeafAt(extensions_json, a)
        /\ Last(extension_paths[Rank(extensions_json, a)].path)
             = LeafAt(extensions_json, a)

\* A nested dict with one leaf, then a leaf with another id.
C12_Witness ==
    /\ command = "parse"
    /\ pc = "returned"
    /\ Len(extensions_json) = 2
    /\ extensions_json[1].value.t = "dict"
    /\ extensions_json[2].value.t = "str"
    /\ Len(extension_paths) = 2
    /\ extension_paths[1].extension_id # extension_paths[2].extension_id

\* C13: parse_extensions_json raises, and returns no list, exactly when a
\* value of the tree, at any depth, is neither a str nor a dict or is the
\* empty str; on every other tree it returns.
C13_FailsIffMalformed ==
    (command = "parse" /\ pc # "call") =>
      IF Malformed(extensions_json)
      THEN /\ pc = "raised"
           /\ exc \in {"ValueError", "TypeError"}
           /\ extension_paths = <<>>
      ELSE /\ pc = "returned"
           /\ exc = "none"

\* The value of a wrong type is nested, after a good leaf.
C13_Witness ==
    /\ command = "parse"
    /\ pc = "raised"
    /\ exc = "TypeError"
    /\ Len(extensions_json) = 2
    /\ extensions_json[1].value.t = "str"
    /\ extensions_json[2].value.t = "dict"

\* The id is of the form publisher.name: one '.', both halves non-empty.
OneDot(extension_id) ==
    Cardinality({i \in DOMAIN extension_id : extension_id[i] = DOT}) = 1

PublisherDotName(extension_id) ==
    /\ OneDot(extension_id)
    /\ extension_id[1] # DOT
    /\ Last(extension_id) # DOT

\* C14 as stated: every target the parser has handed to the batch has an id
\* of the form publisher.name.
C14_IdsWellFormed ==
    command = "extensions" =>
      \A i \in DOMAIN extension_paths :
        PublisherDotName(extension_paths[i].extension_id)

Requested(task) == task.st \in {"inflight", "opening", "writing", "done"}

\* C14 amended: the parser hands on every non-empty id and the version
\* lookup takes it as it is; an id is checked where it is split only, so a
\* filename probe exists, and a download request is sent, only for an id with
\* exactly one '.', and a batch with another id raises ValueError and never
\* returns.
C14_OnlyOneDotIdsRequested ==
    command = "extensions" =>
      /\ name_tasks # <<>> =>
           \A i \in DOMAIN extension_paths : OneDot(extension_paths[i].extension_id)
      /\ \A i \in DOMAIN download_tasks :
           IF OneDot(download_tasks[i].args.extension_id)
           THEN download_tasks[i].exc # "ValueError"
           ELSE /\ ~Requested(download_tasks[i])
                /\ download_tasks[i].st = "failed" => download_tasks[i].exc = "ValueError"
      /\ pc = "returned" =>
           \A i \in DOMAIN extension_paths : OneDot(extension_paths[i].extension_id)
      /\ (pc = "raised" /\ version_tasks # <<>> /\ name_tasks = <<>>) =>
           /\ exc = "ValueError"
           /\ \E i \in DOMAIN extension_paths : ~OneDot(extension_paths[i].extension_id)

\* The version of an id without a '.' was looked up, then the batch raised.
C14_Witness ==
    /\ command = "extensions"
    /\ pc = "raised"
    /\ exc = "ValueError"
    /\ Len(version_tasks) = 2
    /\ version_tasks[2].result = "1.0"
    /\ ~OneDot(extension_paths[2].extension_id)
    /\ OneDot(extension_paths[1].extension_id)

C16_PatchIdempotent ==
    [][(command = "patch" /\ pc = "once" /\ pc' = "twice") =>
         /\ \A i \in DOMAIN extension_paths :
              extension_paths'[i].path = extension_paths[i].path
         /\ exc' = "none" <=> exc = "none"]_vars

\* Two targets patched twice: both got a name that is not the id, one after
\* its version was found.
C16_Witness ==
    /\ command = "patch"
    /\ pc = "twice"
    /\ exc = "none"
    /\ versionize
    /\ Len(extension_paths) = 2
    /\ extension_paths[1].version = "2.0"
    /\ Last(extension_paths[1].path) = <<"f", DOT, "vsix">>
    /\ Last(extension_paths[2].path) = <<"g", DOT, "zip">>
    /\ BagCardinality(requests) = 8

\* The leaf of a tree that is at a position of the traversal.
LeafOfRank(tree, i) == CHOOSE a \in Leaves(tree) : Rank(tree, a) = i

\* The directory the keys of the i-th leaf name.
DirOf(tree, i) == Front(KeysThenValue(tree, LeafOfRank(tree, i)))

\* A file name with '.vsix' in the place of what follows its last '.', or
\* after the name when it has no '.' past its first character.
VsixNamed(name) ==
    LET dots == {k \in DOMAIN name : name[k] = DOT /\ 1 < k /\ k < Len(name)
                                     /\ \A m \in (k + 1)..Len(name) : name[m] # DOT}
    IN IF dots = {} \/ Last(name) = DOT THEN name \o VSIX
       ELSE SubSeq(name, 1, (CHOOSE k \in dots : TRUE) - 1) \o VSIX

\* After a batch with filename resolution has returned: the i-th target has
\* its file, written in full, at Place(i), with the body of its own download
\* request when no other target has that place, and there is no other file.
OneFileEach(Place(_)) ==
    /\ \A i \in DOMAIN extension_paths :
         /\ Place(i) \in DOMAIN files
         /\ files[Place(i)].written = "full"
         /\ (\A j \in DOMAIN extension_paths : j # i => Place(j) # Place(i)) =>
              files[Place(i)].body =
                Body(MARKETPLACE_DOWNLOAD_LINK(
                       SubSeq(extension_paths[i].extension_id, 1, 1),
                       SubSeq(extension_paths[i].extension_id, 3, 3),
                       extension_paths[i].version))
    /\ DOMAIN files = {Place(i) : i \in DOMAIN extension_paths}

AtResolvedName(i) == DirOf(extensions_json, i) \o <<name_tasks[i].result>>

AtVsixName(i) == DirOf(extensions_json, i) \o <<VsixNamed(name_tasks[i].result)>>

\* C17 as stated: with filename resolution on, a batch that returned has
\* written one file for each target, at D/F for the directory D of its keys
\* and its resolved filename F, holding the bytes of its download request.
C17_FileAtResolvedName ==
    (command = "extensions" /\ real_name /\ pc = "returned") =>
      OneFileEach(AtResolvedName)

\* C17 amended: the file of a target is at D/F with the suffix of F replaced
\* by '.vsix' (D/F itself when F ends in '.vsix'); it holds the bytes of the
\* download request of the target when no other target has the same D and F,
\* and the batch has written no other file.
C17_FileAtNameWithVsix ==
    (command = "extensions" /\ real_name /\ pc = "returned") =>
      OneFileEach(AtVsixName)

\* Two targets: one resolved to a .vsix name, one to a .zip name.
C17_Witness ==
    /\ command = "extensions"
    /\ real_name
    /\ pc = "returned"
    /\ Len(name_tasks) = 2
    /\ name_tasks[1].result = <<"f", DOT, "vsix">>
    /\ name_tasks[2].result = <<"g", DOT, "zip">>
    /\ DOMAIN files = {<<<<"a">>, <<"f", DOT, "vsix">>>>, <<<<"b">>, <<"g", DOT, "vsix">>>>}

\* C18 as stated: without filename resolution every extension is written at
\* the path the parser gave its leaf (the keys, then the whole id) with
\* '.vsix' put after it.
C18_VsixAfterWholeId ==
    (command = "extensions" /\ ~real_name) =>
      \A i \in DOMAIN download_tasks :
        download_tasks[i].save_path =
          DirOf(extensions_json, i) \o <<extension_paths[i].extension_id \o VSIX>>

\* C18 amended: without filename resolution an extension publisher.name is
\* written under the keys of its leaf as publisher.vsix: '.vsix' takes the
\* place of the part of the id that follows its '.'.
C18_WrittenAtPublisherVsix ==
    (command = "extensions" /\ ~real_name) =>
      \A i \in DOMAIN download_tasks :
        LET id == extension_paths[i].extension_id
            at == DirOf(extensions_json, i) \o <<SubSeq(id, 1, 1) \o VSIX>>
        IN PublisherDotName(id) =>
             /\ download_tasks[i].save_path = at
             /\ download_tasks[i].st \in {"writing", "done"} => at \in DOMAIN files
             /\ pc = "returned" => files[at].written = "full"

\* A batch without filename resolution has returned with a file under a
\* nested key.
C18_Witness ==
    /\ command = "extensions"
    /\ ~real_name
    /\ pc = "returned"
    /\ DOMAIN files = {<<<<"a">>, <<"b">>, <<"q", DOT, "vsix">>>>}

\* The elements of a "vscode" section: those of the list, or the one object.
Elements(json) == IF json.t = "list" THEN json.v ELSE <<json.v>>

\* C19: parse_vscode_json turns every element into one target, in the order
\* of the list, with the platform of the element, build "stable" when the
\* element has no build and version "latest" when it has no version; it
\* raises, before any target is made or request sent, when an element has no
\* platform.
C19_EditorSpecsParsed ==
    (command = "editor" /\ pc # "call") =>
      LET elements == Elements(vscode_json)
      IN IF \E i \in DOMAIN elements : "platform" \notin DOMAIN elements[i]
         THEN /\ pc = "raised"
              /\ exc = "KeyError"
              /\ vscode_specs = <<>>
              /\ name_tasks = <<>>
              /\ requests = EmptyBag
         ELSE /\ Len(vscode_specs) = Len(elements)
              /\ \A i \in DOMAIN elements :
                   /\ vscode_specs[i].platform = elements[i].platform
                   /\ vscode_specs[i].build =
                        IF "build" \in DOMAIN elements[i]
                        THEN elements[i].build ELSE "stable"
                   /\ vscode_specs[i].version =
                        IF "version" \in DOMAIN elements[i]
                        THEN elements[i].version ELSE "latest"

\* A list of two: the first element has its platform only, the second has a
\* build and a version too.
C19_Witness ==
    /\ command = "editor"
    /\ pc = "names"
    /\ vscode_json.t = "list"
    /\ Len(vscode_json.v) = 2
    /\ DOMAIN vscode_json.v[1] = {"platform"}
    /\ vscode_specs =
         <<[platform |-> <<"linux-x64">>, build |-> "stable", version |-> "latest"],
           [platform |-> <<"darwin">>, build |-> "insider", version |-> "1.0"]>>

\* C20: the download request of a target goes to the URL of its own fields:
\* for an extension publisher.name the marketplace link of publisher, name
\* and version, the version being the one its lookup found when the versions
\* were resolved and "latest" otherwise, and the same URL its filename probe
\* went to; for an editor binary the link of its version, platform and build.
C20_DownloadUrlOfOwnFields ==
    \A i \in DOMAIN download_tasks :
      Requested(download_tasks[i]) =>
        /\ download_tasks[i].url \in DOMAIN requests
        /\ IF command = "extensions"
           THEN LET id == extension_paths[i].extension_id
                    version == IF real_name /\ versionize
                               THEN version_tasks[i].result ELSE "latest"
                IN /\ download_tasks[i].url =
                        <<<<"marketplace.visualstudio.com">>, <<"publishers">>,
                          SubSeq(id, 1, 1), <<"vsextensions">>, SubSeq(id, 3, 3),
                          <<version>>, <<"vspackage">>>>
                   /\ real_name => download_tasks[i].url = name_tasks[i].url
           ELSE download_tasks[i].url =
                  <<<<"update.code.visualstudio.com">>, <<vscode_specs[i].version>>,
                    vscode_specs[i].platform, <<vscode_specs[i].build>>>>

\* Two extensions whose versions were resolved differently are being
\* downloaded.
C20_Witness ==
    /\ command = "extensions"
    /\ real_name /\ versionize
    /\ Len(download_tasks) = 2
    /\ Every(download_tasks, "inflight")
    /\ download_tasks[1].url[6] = <<"2.0">>
    /\ download_tasks[2].url[6] = <<"latest">>
    /\ download_tasks[1].url[5] # download_tasks[2].url[5]

\* The tasks of a list that have left "scheduled" and whose request, if
\* they made one, went to the URL.
Issued(tasks, url) ==
    Cardinality({i \in DOMAIN tasks :
                   tasks[i].url = url /\ tasks[i].st # "scheduled"})

\* A list of tasks, once made, keeps its length; a task that was started is
\* not scheduled again, and one that failed stays as it is.
NeverAgain(old, new) ==
    old # <<>> =>
      /\ Len(new) = Len(old)
      /\ \A i \in DOMAIN old :
           /\ old[i].st # "scheduled" => new[i].st # "scheduled"
           /\ old[i].st = "failed" => new[i] = old[i]

\* The tasks of a list that go from "scheduled" to "inflight" in a step,
\* their request going to the URL.
Starting(old, new, url) ==
    IF Len(new) # Len(old) THEN {}
    ELSE {i \in DOMAIN old : /\ old[i].st = "scheduled"
                             /\ new[i].st = "inflight"
                             /\ new[i].url = url}

\* C21: there are no retries. Every URL was requested at most as many times
\* as there are version lookups, filename probes and downloads of targets
\* that were started with that URL, one request for each; a step that issues
\* a request issues one, for one task that was not started before; a task
\* that was started is never scheduled again and a failed one never changes.
C21_NoRetries ==
    /\ [](\A url \in DOMAIN requests :
            CopiesIn(url, requests) <= Issued(version_tasks, url)
                                       + Issued(name_tasks, url)
                                       + Issued(download_tasks, url))
    /\ [][/\ NeverAgain(version_tasks, version_tasks')
          /\ NeverAgain(name_tasks, name_tasks')
          /\ NeverAgain(download_tasks, download_tasks')
          /\ requests' # requests =>
               \E url \in DOMAIN requests' :
                 /\ requests' = Sent(url)
                 /\ Cardinality(Starting(version_tasks, version_tasks', url))
                    + Cardinality(Starting(name_tasks, name_tasks', url))
                    + Cardinality(Starting(download_tasks, download_tasks', url))
                    = 1]_vars

\* Two extensions had their versions and their names looked up; the download
\* request of one failed and the batch has ended with that failure: two
\* requests went to each page, and two at most to each file, the probe and
\* the download.
C21_Witness ==
    /\ command = "extensions"
    /\ real_name /\ versionize
    /\ pc = "raised"
    /\ exc = "ClientError"
    /\ Len(download_tasks) = 2
    /\ \A i \in DOMAIN download_tasks : Ended(download_tasks[i])
    /\ \E i \in DOMAIN download_tasks :
         /\ download_tasks[i].st = "failed"
         /\ download_tasks[i].exc = "ClientError"
         /\ CopiesIn(download_tasks[i].url, requests) = 2
    /\ download_tasks[1].url # download_tasks[2].url
    /\ BagCardinality(requests) \in {5, 6}

\* A step completes the i-th task of a list.
Completes(old, new, i) ==
    /\ Len(new) = Len(old)
    /\ i \in DOMAIN old
    /\ old[i].st = "inflight"
    /\ new[i].st \in {"done", "failed"}
    /\ new[i] # old[i]

\* C22: in whatever order the lookups of a batch complete, the i-th lookup
\* of each kind asks for the i-th target (its page for the version; the link
\* of its publisher, name and version, or of its editor spec, for the
\* filename), a response completes the lookup whose request it answers and
\* no other, and once a gather has returned the i-th target has the version
\* and the filename its own lookups found.
C22_ResultsToOwnTarget ==
    /\ [](/\ version_tasks # <<>> =>
               /\ Len(version_tasks) = Len(extension_paths)
               /\ \A i \in DOMAIN version_tasks :
                    /\ version_tasks[i].url =
                         <<<<"marketplace.visualstudio.com">>,
                           <<"items?itemName=">> \o extension_paths[i].extension_id>>
                    /\ pc # "versions" =>
                         extension_paths[i].version = version_tasks[i].result
          /\ name_tasks # <<>> =>
               /\ Len(name_tasks) = Len(Targets)
               /\ \A i \in DOMAIN name_tasks :
                    IF command = "extensions"
                    THEN LET id == extension_paths[i].extension_id
                         IN /\ name_tasks[i].url =
                                 <<<<"marketplace.visualstudio.com">>, <<"publishers">>,
                                   SubSeq(id, 1, 1), <<"vsextensions">>,
                                   SubSeq(id, 3, 3), <<extension_paths[i].version>>,
                                   <<"vspackage">>>>
                            /\ download_tasks # <<>> =>
                                 /\ Last(extension_paths[i].path) = name_tasks[i].result
                                 /\ download_tasks[i].args.extension_id = id
                                 /\ download_tasks[i].args.version =
                                      extension_paths[i].version
                    ELSE /\ name_tasks[i].url =
                              <<<<"update.code.visualstudio.com">>,
                                <<vscode_specs[i].version>>, vscode_specs[i].platform,
                                <<vscode_specs[i].build>>>>
                         /\ download_tasks # <<>> =>
                              /\ download_tasks[i].args = vscode_specs[i]
                              /\ download_tasks[i].save_path =
                                   JoinPath(PathParts(vscode_specs[i].platform),
                                            PathParts(name_tasks[i].result))
          /\ io.phase = "versions" => version_tasks[io.i].st = "inflight"
          /\ io.phase = "names" =>
               /\ name_tasks[io.i].st = "inflight"
               /\ io.resp.ok =>
                    \/ io.resp.url = name_tasks[io.i].url
                    \/ io.resp.url \in RedirectUrls)
    /\ [][/\ \A i \in 1..MaxTargets :
               Completes(version_tasks, version_tasks', i) =>
                 /\ io.phase = "versions" /\ io.i = i
                 /\ version_tasks'[i].result = FirstToken(io.resp)
                 /\ \A j \in DOMAIN version_tasks :
                      j # i => version_tasks'[j] = version_tasks[j]
          /\ \A i \in 1..MaxTargets :
               Completes(name_tasks, name_tasks', i) =>
                 /\ io.phase = "names" /\ io.i = i
                 /\ version_tasks' = version_tasks
                 /\ \A j \in DOMAIN name_tasks :
                      j # i => name_tasks'[j] = name_tasks[j]]_vars

\* Two different extensions whose lookups found different versions and
\* different filenames are being downloaded: the first has the version and
\* the name that were found for it, the second has its own.
C22_Witness ==
    /\ command = "extensions"
    /\ real_name /\ versionize
    /\ pc = "downloads"
    /\ Len(extension_paths) = 2
    /\ extension_paths[1].extension_id = <<"p", DOT, "x">>
    /\ extension_paths[2].extension_id = <<"q", DOT, "y">>
    /\ version_tasks[1].result = "latest"
    /\ version_tasks[2].result = "2.0"
    /\ name_tasks[1].result = <<"g", DOT, "zip">>
    /\ name_tasks[2].result = <<"f", DOT, "vsix">>
    /\ extension_paths[1].version = "latest"
    /\ extension_paths[2].version = "2.0"
    /\ Last(extension_paths[1].path) = <<"g", DOT, "zip">>
    /\ Last(extension_paths[2].path) = <<"f", DOT, "vsix">>

\* The requests that went to the marketplace, which the extension batch
\* alone makes.
MarketplaceRequests ==
    {url \in DOMAIN requests : url[1] = <<"marketplace.visualstudio.com">>}

\* The link of an editor binary.
EditorUrl(spec) ==
    <<<<"update.code.visualstudio.com">>, <<spec.version>>, spec.platform,
      <<spec.build>>>>

\* C23: in the config command the extension batch starts only after the
\* editor batch has returned. While the editor batch is the current one the
\* extensions section has not been parsed and no request has gone to the
\* marketplace; the step that goes on to the extension batch is taken when
\* the editor batch has returned without an exception, every one of its
\* probes and downloads done and none in flight; an editor batch that has
\* raised is never followed by another batch; and once the extension batch
\* is the current one, every editor binary has had its two requests and no
\* editor task is left.
C23_ExtensionsAfterEditor ==
    /\ [](/\ command = "editor" =>
               /\ extension_paths = <<>>
               /\ version_tasks = <<>>
               /\ MarketplaceRequests = {}
          /\ command = "extensions" =>
               /\ pending = <<>>
               /\ \A i \in DOMAIN vscode_specs :
                    CopiesIn(EditorUrl(vscode_specs[i]), requests) =
                      2 * Cardinality({j \in DOMAIN vscode_specs :
                                         EditorUrl(vscode_specs[j]) =
                                           EditorUrl(vscode_specs[i])})
               /\ \A i \in DOMAIN name_tasks :
                    name_tasks[i].url[1] = <<"marketplace.visualstudio.com">>)
    /\ [][/\ (command = "editor" /\ command' # "editor") =>
               /\ command' = "extensions"
               /\ pc = "returned" /\ exc = "none"
               /\ io = NoIO
               /\ Len(name_tasks) = Len(vscode_specs)
               /\ Len(download_tasks) = Len(vscode_specs)
               /\ Every(name_tasks, "done")
               /\ Every(download_tasks, "done")
               /\ pc' = "call"
               /\ requests' = requests
          /\ (command = "editor" /\ pc = "raised") =>
               /\ command' = "editor"
               /\ pc' = "raised"
               /\ requests' = requests]_vars

\* Two editor binaries were downloaded, then the extension of the config
\* file: its requests went out after the editor batch had returned.
C23_Witness ==
    /\ command = "extensions"
    /\ pending = <<>>
    /\ pc = "returned"
    /\ Len(vscode_specs) = 2
    /\ vscode_specs[1].platform # vscode_specs[2].platform
    /\ Len(extension_paths) = 1
    /\ MarketplaceRequests # {}
    /\ BagCardinality(requests) = 7

====
